---- MODULE Spec2Model ----
(***************************************************************************)
(* TOTPManager (2fa.py): the account store, its JSON file, the TOTP code   *)
(* and seconds-remaining computation, the QR export, and main's command    *)
(* line, interactive menu and watch loop.                                  *)
(*                                                                         *)
(* Text is a sequence of one-character strings.  A Python object is a      *)
(* record [t, v]: t is the Python type, v a sequence (the characters of a  *)
(* str, the digits of an int, the items of a list, the [k, val] items of a *)
(* dict in insertion order).                                               *)
(***************************************************************************)
EXTENDS Integers, Sequences, FiniteSets, TLC

(* ----------------------------- Python objects ------------------------- *)

Str(s) == [t |-> "str", v |-> s]

PyInt(digits) == [t |-> "int", v |-> digits]

List(items) == [t |-> "list", v |-> items]

Dict(items) == [t |-> "dict", v |-> items]

None == [t |-> "None", v |-> <<>>]

EmptyDict == Dict(<<>>)

Item(key, val) == [k |-> key, val |-> val]

\* key in d
HasKey(d, key) == \E i \in 1..Len(d.v) : d.v[i].k = key

\* d[key], for a key of d
GetItem(d, key) == d.v[CHOOSE i \in 1..Len(d.v) : d.v[i].k = key].val

\* d[key] = val: an existing key keeps its place, a new one goes last.
SetItem(d, key, val) ==
    IF HasKey(d, key)
    THEN Dict([i \in 1..Len(d.v) |-> IF d.v[i].k = key THEN Item(key, val) ELSE d.v[i]])
    ELSE Dict(Append(d.v, Item(key, val)))

\* del d[key]
DelItem(d, key) == Dict(SelectSeq(d.v, LAMBDA it : it.k # key))

\* bool(x) of a str or a container; None is false.
Truthy(x) == x.t # "None" /\ x.v # <<>>

(* ------------------------------ json.dump ----------------------------- *)

\* indent=2
Indent == 2

RECURSIVE Spaces(_)
Spaces(n) == IF n = 0 THEN <<>> ELSE <<" ">> \o Spaces(n - 1)

\* The newline and indentation json writes before an item at a nesting level.
NewlineIndent(level) == <<"\n">> \o Spaces(Indent * level)

\* Faulty variant of EscapeChar: the quote is written as it is.
EscapeCharNoQuote(c) ==
    CASE c = "\\" -> <<"\\", "\\">>
      [] c = "\n" -> <<"\\", "n">>
      [] c = "\r" -> <<"\\", "r">>
      [] c = "\t" -> <<"\\", "t">>
      [] OTHER -> <<c>>

\* ensure_ascii=False: only the quote, the backslash and control characters
\* are escaped.
EscapeChar(c) ==
    CASE c = "\"" -> <<"\\", "\"">>
      [] c = "\\" -> <<"\\", "\\">>
      [] c = "\n" -> <<"\\", "n">>
      [] c = "\r" -> <<"\\", "r">>
      [] c = "\t" -> <<"\\", "t">>
      [] OTHER -> <<c>>

RECURSIVE Escape(_)
Escape(s) == IF s = <<>> THEN <<>> ELSE EscapeChar(Head(s)) \o Escape(Tail(s))

EncodeStr(s) == <<"\"">> \o Escape(s) \o <<"\"">>

RECURSIVE Encode(_, _)
RECURSIVE EncodeItems(_, _, _)
\* The items of a dict from index i on, each after its separator.
EncodeItems(items, i, level) ==
    IF i > Len(items) THEN <<>>
    ELSE (IF i = 1 THEN <<>> ELSE <<",">> \o NewlineIndent(level))
         \o EncodeStr(items[i].k) \o <<":", " ">> \o Encode(items[i].val, level)
         \o EncodeItems(items, i + 1, level)

\* json's text for a str or a dict nested at a level.
Encode(o, level) ==
    CASE o.t = "str" -> EncodeStr(o.v)
      [] o.t = "dict" ->
           IF o.v = <<>> THEN <<"{", "}">>
           ELSE <<"{">> \o NewlineIndent(level + 1)
                \o EncodeItems(o.v, 1, level + 1)
                \o NewlineIndent(level) \o <<"}">>

Dumps(o) == Encode(o, 0)

(* ------------------------------ json.load ----------------------------- *)

Whitespace == {" ", "\t", "\n", "\r"}

Digits == {"0", "1", "2", "3", "4", "5", "6", "7", "8", "9"}

\* Characters a JSON string may not hold unescaped (strict mode).
ControlChars == {"\t", "\n", "\r"}

Fail == [ok |-> FALSE, val |-> None, end |-> 0]

Ok(val, end) == [ok |-> TRUE, val |-> val, end |-> end]

RECURSIVE SkipWs(_, _)
SkipWs(s, i) == IF i <= Len(s) /\ s[i] \in Whitespace THEN SkipWs(s, i + 1) ELSE i

\* The character an escape stands for; "" for an escape json rejects.
Unescape(c) ==
    CASE c = "\"" -> "\""
      [] c = "\\" -> "\\"
      [] c = "/" -> "/"
      [] c = "n" -> "\n"
      [] c = "r" -> "\r"
      [] c = "t" -> "\t"
      [] OTHER -> ""

\* A string's characters from i, the place after its opening quote.
RECURSIVE ScanString(_, _, _)
ScanString(s, i, acc) ==
    IF i > Len(s) THEN Fail
    ELSE IF s[i] = "\"" THEN Ok(acc, i + 1)
    ELSE IF s[i] \in ControlChars THEN Fail
    ELSE IF s[i] = "\\"
         THEN IF i + 1 > Len(s) \/ Unescape(s[i + 1]) = "" THEN Fail
              ELSE ScanString(s, i + 2, Append(acc, Unescape(s[i + 1])))
    ELSE ScanString(s, i + 1, Append(acc, s[i]))

\* The end of the run of digits that starts at i.
RECURSIVE DigitsEnd(_, _)
DigitsEnd(s, i) == IF i <= Len(s) /\ s[i] \in Digits THEN DigitsEnd(s, i + 1) ELSE i

\* dict(pairs): a repeated key keeps its first place and its last value.
RECURSIVE DictOfPairs(_)
DictOfPairs(pairs) ==
    IF pairs = <<>> THEN EmptyDict
    ELSE LET n == Len(pairs)
         IN  SetItem(DictOfPairs(SubSeq(pairs, 1, n - 1)), pairs[n].k, pairs[n].val)

RECURSIVE ScanOnce(_, _)
RECURSIVE ObjectLoop(_, _, _)
RECURSIVE ArrayLoop(_, _, _)

\* An object's pairs from i, the place after the opening quote of a key.
ObjectLoop(s, i, pairs) ==
    LET key == ScanString(s, i, <<>>)
    IN  IF ~key.ok THEN Fail
        ELSE LET colon == SkipWs(s, key.end)
             IN  IF colon > Len(s) \/ s[colon] # ":" THEN Fail
                 ELSE LET value == ScanOnce(s, SkipWs(s, colon + 1))
                      IN  IF ~value.ok THEN Fail
                          ELSE LET next == SkipWs(s, value.end)
                                   got == Append(pairs, Item(key.val, value.val))
                               IN  IF next > Len(s) THEN Fail
                                   ELSE IF s[next] = "}" THEN Ok(DictOfPairs(got), next + 1)
                                   ELSE IF s[next] # "," THEN Fail
                                   ELSE LET quote == SkipWs(s, next + 1)
                                        IN  IF quote > Len(s) \/ s[quote] # "\"" THEN Fail
                                            ELSE ObjectLoop(s, quote + 1, got)

\* An object from i, the place after its brace.
JSONObject(s, i) ==
    LET first == SkipWs(s, i)
    IN  IF first > Len(s) THEN Fail
        ELSE IF s[first] = "}" THEN Ok(EmptyDict, first + 1)
        ELSE IF s[first] # "\"" THEN Fail
        ELSE ObjectLoop(s, first + 1, <<>>)

\* An array's values from i, the place of a value.
ArrayLoop(s, i, items) ==
    LET value == ScanOnce(s, i)
    IN  IF ~value.ok THEN Fail
        ELSE LET next == SkipWs(s, value.end)
                 got == Append(items, value.val)
             IN  IF next > Len(s) THEN Fail
                 ELSE IF s[next] = "]" THEN Ok(List(got), next + 1)
                 ELSE IF s[next] # "," THEN Fail
                 ELSE ArrayLoop(s, SkipWs(s, next + 1), got)

\* An array from i, the place after its bracket.
JSONArray(s, i) ==
    LET first == SkipWs(s, i)
    IN  IF first > Len(s) THEN Fail
        ELSE IF s[first] = "]" THEN Ok(List(<<>>), first + 1)
        ELSE ArrayLoop(s, first, <<>>)

\* The value that starts at i: a string, an object, an array or an integer
\* (the literals, signs, fractions and \u escapes of JSON need characters
\* that no modelled file holds).
ScanOnce(s, i) ==
    IF i > Len(s) THEN Fail
    ELSE IF s[i] = "\"" THEN
         LET str == ScanString(s, i + 1, <<>>)
         IN  IF str.ok THEN Ok(Str(str.val), str.end) ELSE Fail
    ELSE IF s[i] = "{" THEN JSONObject(s, i + 1)
    ELSE IF s[i] = "[" THEN JSONArray(s, i + 1)
    ELSE IF s[i] = "0" THEN Ok(PyInt(<<"0">>), i + 1)
    ELSE IF s[i] \in Digits THEN Ok(PyInt(SubSeq(s, i, DigitsEnd(s, i) - 1)), DigitsEnd(s, i))
    ELSE Fail

\* json.loads: one value, with white space around it and nothing else.
Loads(s) ==
    LET value == ScanOnce(s, SkipWs(s, 1))
    IN  IF value.ok /\ SkipWs(s, value.end) = Len(s) + 1 THEN value ELSE Fail

(* ------------------------------ the files ------------------------------ *)

\* totp_accounts.json in the working directory: absent, a regular file with
\* its bytes, a regular file the process may not read, or a directory.
Absent == [kind |-> "absent", data |-> <<>>]

Regular(data) == [kind |-> "regular", data |-> data]

\* A byte that is no UTF-8 text.
BadByte == "xFF"

\* open(..., encoding='utf-8').read() decodes every byte or raises.
Decodable(data) == \A i \in 1..Len(data) : data[i] # BadByte

\* _load_accounts: the object json.load returns, {} for a missing file and
\* for JSONDecodeError and IOError; any other exception propagates.
LoadAccounts(f) ==
    IF f.kind = "absent" THEN [exc |-> "none", val |-> EmptyDict]
    ELSE IF f.kind # "regular" THEN [exc |-> "none", val |-> EmptyDict]
    ELSE IF ~Decodable(f.data) THEN [exc |-> "UnicodeDecodeError", val |-> None]
    ELSE IF Loads(f.data).ok THEN [exc |-> "none", val |-> Loads(f.data).val]
    ELSE [exc |-> "none", val |-> EmptyDict]

\* The longest prefix of a failed write the model keeps apart.
MaxCut == 1

Min(a, b) == IF a < b THEN a ELSE b

\* Faulty variant of SaveAccounts: the file is opened for appending.
SaveAccountsAppend(f, accts) ==
    {[file |-> Regular(f.data \o Dumps(accts)), save |-> "ok"],
     [file |-> f, save |-> "failed"]}

\* _save_accounts: the file afterwards and whether IOError was reported.
\* open(..., 'w') raises and leaves the file as it was, or truncates it; the
\* write then completes, or fails leaving a proper prefix of the text.
SaveAccounts(f, accts) ==
    LET text == Dumps(accts)
    IN  {[file |-> Regular(text), save |-> "ok"], [file |-> f, save |-> "failed"]}
        \cup {[file |-> Regular(SubSeq(text, 1, n)), save |-> "failed"] :
                n \in 0..Min(MaxCut, Len(text) - 1)}

(* ------------------------------ the inputs ----------------------------- *)

\* Account names, one of them with the characters json escapes.
Names == {<<"a">>, <<"\\", "\"">>}

\* The secret and issuer arguments of add_account: base32 secrets, the issuer
\* absent (None), empty or given.
Credentials ==
    {[secret |-> <<"J", "B">>, issuer |-> None],
     [secret |-> <<"J", "B">>, issuer |-> Str(<<>>)],
     [secret |-> <<"M", "Y">>, issuer |-> Str(<<"X">>)]}

\* Answers to the overwrite prompt.
Answers == {"y", "Y", "n", "yes"}

\* str.lower()
Lower(a) == CASE a = "Y" -> "y" [] OTHER -> a

\* The last second of the modelled clock.
MaxTime == 31

(* --------------------------- TOTPManager methods ----------------------- *)

SecretKey == <<"s", "e", "c", "r", "e", "t">>

IssuerKey == <<"i", "s", "s", "u", "e", "r">>

\* {'secret': secret, 'issuer': issuer or name}
NewEntry(name, secret, issuer) ==
    Dict(<<Item(SecretKey, Str(secret)),
           Item(IssuerKey, IF Truthy(issuer) THEN issuer ELSE Str(name))>>)

\* Faulty variant of Declined: the answer is compared without lower().
DeclinedCaseSensitive(answer) == answer # "y"

\* overwrite.lower() != 'y'
Declined(answer) == Lower(answer) # "y"

\* add_account: the mapping afterwards, whether _save_accounts ran, the
\* return value and the message.  The answer is read only for a known name.
AddAccountCall(accts, name, secret, issuer, answer) ==
    IF HasKey(accts, name) /\ Declined(answer)
    THEN [accounts |-> accts, write |-> FALSE, ret |-> "False", out |-> {}]
    ELSE [accounts |-> SetItem(accts, name, NewEntry(name, secret, issuer)),
          write |-> TRUE, ret |-> "True", out |-> {"added"}]

\* Faulty variant of RemoveAccountCall: the name is not looked up first.
RemoveSilently(accts, name) ==
    [accounts |-> DelItem(accts, name), write |-> TRUE, ret |-> "True",
     out |-> {"removed"}]

\* remove_account: the mapping afterwards, whether _save_accounts ran, the
\* return value and the message.
RemoveAccountCall(accts, name) ==
    IF HasKey(accts, name)
    THEN [accounts |-> DelItem(accts, name), write |-> TRUE, ret |-> "True",
          out |-> {"removed"}]
    ELSE [accounts |-> accts, write |-> FALSE, ret |-> "False", out |-> {"not_found"}]

\* Faulty variant of Missing: the guard never fires.
MissingNever(accts, name) == FALSE

\* name not in self.accounts
Missing(accts, name) == ~HasKey(accts, name)

\* self.accounts[name]: KeyError for a name the mapping lacks.
Subscript(d, key) ==
    IF HasKey(d, key) THEN [exc |-> "none", val |-> GetItem(d, key)]
    ELSE [exc |-> "KeyError", val |-> None]

\* The time step of pyotp.TOTP and of the remaining-seconds arithmetic.
Period == 30

\* Faulty variant of Remaining: the window's first second reports 0.
RemainingWrapped(t) == (Period - t) % Period

\* 30 - (int(time.time()) % 30)
Remaining(t) == Period - (t % Period)

\* totp.now() at second t: the HOTP value of the secret and the counter
\* floor(t / 30), kept symbolic.
Now(secret, t) == [secret |-> secret, counter |-> t \div Period]

\* os.getcwd(): a str.
ConfigDir == Str(<<"/", "w">>)

\* left / right: defined for a Path on the left, TypeError for a str.
TrueDiv(left, right) ==
    IF left.t = "PosixPath"
    THEN [exc |-> "none", val |-> [t |-> "PosixPath", v |-> left.v \o <<"/">> \o right]]
    ELSE [exc |-> "TypeError", val |-> None]

\* f"{name}_qr.png"
QrName(name) == name \o <<"_", "q", "r", ".", "p", "n", "g">>

\* totp.provisioning_uri(name=name, issuer_name=issuer), by its parts.
ProvisioningUri(name, secret, issuer) ==
    [scheme |-> "otpauth", type |-> "totp", label |-> name, secret |-> secret,
     issuer |-> issuer]

(* ------------------------------- the state ---------------------------- *)

VARIABLES
    file,       \* totp_accounts.json
    images,     \* the image files saved in the working directory
    accounts,   \* manager.accounts (None before the manager exists)
    pc,         \* where main is
    mode,       \* "cli": a command-line flag is served; "menu": interactive mode
    watching,   \* inside the try block of a watch loop
    clock,      \* the wall clock, in whole seconds
    frame,      \* what the running generate call has computed and printed
    last,       \* the latest call: its arguments, return value and messages
    exc         \* the exception that ended the process, or "none"

vars == <<file, images, accounts, pc, mode, watching, clock, frame, last, exc>>

Call(op) ==
    [op |-> op, name |-> <<>>, secret |-> <<>>, issuer |-> None, answer |-> "",
     ret |-> "", out |-> {}, save |-> "none"]

\* The locals of generate_code and generate_all_codes: the remaining seconds
\* and the second they were computed at (once sampled), the loop index, and
\* per account the code with the second totp.now() ran at.
NoFrame ==
    [name |-> <<>>, i |-> 0, sampled |-> FALSE, rem |-> 0, trem |-> 0, lines |-> <<>>]

\* Where control goes when a command is done: the process ends after a flag,
\* the menu is shown again in interactive mode.
Back(m) == IF m = "cli" THEN "done" ELSE "menu"

\* The message _save_accounts prints when the write raised IOError.
SaveMessage(save) == IF save = "failed" THEN {"save_failed"} ELSE {}

\* The places where the clock is about to be read or the loop sleeps.
TimedPcs == {"gen_now", "gen_time", "all_begin", "all_code", "w_clear", "w_sleep"}

Init ==
    /\ file = Absent
    /\ images = {}
    /\ accounts = None
    /\ pc = "boot"
    /\ mode = "cli"
    /\ watching = FALSE
    /\ clock = 0
    /\ frame = NoFrame
    /\ last = Call("exec")
    /\ exc = "none"

(* ------------------------------- the steps ---------------------------- *)

\* manager = TOTPManager()
Startup ==
    /\ pc = "boot"
    /\ accounts' = LoadAccounts(file).val
    /\ exc' = LoadAccounts(file).exc
    /\ pc' = IF LoadAccounts(file).exc = "none" THEN "main" ELSE "crashed"
    /\ last' = Call("init")
    /\ UNCHANGED <<file, images, mode, watching, clock, frame>>

\* No flag given: the interactive menu.
Interactive ==
    /\ pc = "main"
    /\ pc' = "menu"
    /\ mode' = "menu"
    /\ last' = Call("interactive")
    /\ UNCHANGED <<file, images, accounts, watching, clock, frame, exc>>

\* A call that has run _save_accounts or not: the file and the messages.
Persist(call, result) ==
    IF result.write
    THEN \E saved \in SaveAccounts(file, result.accounts) :
           /\ file' = saved.file
           /\ last' = [call EXCEPT !.ret = result.ret, !.save = saved.save,
                                   !.out = SaveMessage(saved.save) \cup result.out]
    ELSE /\ file' = file
         /\ last' = [call EXCEPT !.ret = result.ret, !.out = result.out]

\* add_account(name, secret, issuer), from --add or menu choice 1.
AddAccount ==
    /\ pc \in {"main", "menu"}
    /\ \E name \in Names, cred \in Credentials :
         \E answer \in (IF HasKey(accounts, name) THEN Answers ELSE {""}) :
           LET result == AddAccountCall(accounts, name, cred.secret, cred.issuer, answer)
               call == [Call("add") EXCEPT !.name = name, !.secret = cred.secret,
                                           !.issuer = cred.issuer, !.answer = answer]
           IN  /\ accounts' = result.accounts
               /\ Persist(call, result)
    /\ pc' = Back(mode)
    /\ frame' = NoFrame
    /\ UNCHANGED <<images, mode, watching, clock, exc>>

\* remove_account(name), from --remove or menu choice 2.
RemoveAccount ==
    /\ pc \in {"main", "menu"}
    /\ \E name \in Names :
         LET result == RemoveAccountCall(accounts, name)
         IN  /\ accounts' = result.accounts
             /\ Persist([Call("remove") EXCEPT !.name = name], result)
    /\ pc' = Back(mode)
    /\ frame' = NoFrame
    /\ UNCHANGED <<images, mode, watching, clock, exc>>

\* list_accounts(), from --list or menu choice 3.
ListAccounts ==
    /\ pc \in {"main", "menu"}
    /\ last' = [Call("list") EXCEPT !.ret = "None",
                  !.out = IF Truthy(accounts) THEN {"listing"} ELSE {"no_accounts"}]
    /\ pc' = Back(mode)
    /\ frame' = NoFrame
    /\ UNCHANGED <<file, images, accounts, mode, watching, clock, exc>>

\* generate_code(name), from --generate or menu choice 4: a missing name is
\* reported and None returned, else the secret is read.
GenerateCode ==
    /\ pc \in {"main", "menu"}
    /\ \E name \in Names :
         LET call == [Call("generate") EXCEPT !.name = name]
             info == Subscript(accounts, name)
         IN  IF Missing(accounts, name)
             THEN /\ last' = [call EXCEPT !.ret = "None", !.out = {"not_found"}]
                  /\ frame' = NoFrame
                  /\ pc' = Back(mode)
                  /\ UNCHANGED exc
             ELSE IF info.exc # "none"
             THEN /\ last' = call
                  /\ frame' = NoFrame
                  /\ pc' = "crashed"
                  /\ exc' = info.exc
             ELSE /\ last' = [call EXCEPT !.secret = GetItem(info.val, SecretKey).v]
                  /\ frame' = [NoFrame EXCEPT !.name = name]
                  /\ pc' = "gen_now"
                  /\ UNCHANGED exc
    /\ UNCHANGED <<file, images, accounts, mode, watching, clock>>

\* code = totp.now()
GenerateNow ==
    /\ pc = "gen_now"
    /\ frame' = [frame EXCEPT !.lines =
                   <<[name |-> frame.name, code |-> Now(last.secret, clock), t |-> clock]>>]
    /\ pc' = "gen_time"
    /\ UNCHANGED <<file, images, accounts, mode, watching, clock, last, exc>>

\* remaining = 30 - (int(time.time()) % 30); return code, remaining
GenerateRemaining ==
    /\ pc = "gen_time"
    /\ frame' = [frame EXCEPT !.sampled = TRUE, !.rem = Remaining(clock), !.trem = clock]
    /\ last' = [last EXCEPT !.ret = "tuple", !.out = {"code", "remaining"}]
    /\ pc' = Back(mode)
    /\ UNCHANGED <<file, images, accounts, mode, watching, clock, exc>>

\* generate_all_codes() is called, from --all or menu choice 5.
GenerateAll ==
    /\ pc \in {"main", "menu"}
    /\ last' = Call("all")
    /\ frame' = NoFrame
    /\ pc' = "all_begin"
    /\ UNCHANGED <<file, images, accounts, mode, watching, clock, exc>>

\* Where generate_all_codes returns to.
AfterAll == IF watching THEN "w_sleep" ELSE Back(mode)

\* generate_all_codes: an empty store is reported, else the time is sampled
\* and the header with the remaining seconds printed.
AllBegin ==
    /\ pc = "all_begin"
    /\ IF Truthy(accounts)
       THEN /\ frame' = [NoFrame EXCEPT !.i = 1, !.sampled = TRUE,
                                        !.rem = Remaining(clock), !.trem = clock]
            /\ last' = [last EXCEPT !.out = {"header"}]
            /\ pc' = "all_code"
       ELSE /\ frame' = NoFrame
            /\ last' = [last EXCEPT !.ret = "None", !.out = {"no_accounts"}]
            /\ pc' = AfterAll
    /\ UNCHANGED <<file, images, accounts, mode, watching, clock, exc>>

\* One pass of the loop over accounts.items(): code = totp.now() and a line.
AllCode ==
    /\ pc = "all_code"
    /\ LET item == accounts.v[frame.i]
           line == [name |-> item.k,
                    code |-> Now(GetItem(item.val, SecretKey).v, clock), t |-> clock]
       IN  /\ frame' = [frame EXCEPT !.i = frame.i + 1, !.lines = Append(frame.lines, line)]
           /\ IF frame.i = Len(accounts.v)
              THEN /\ pc' = AfterAll
                   /\ last' = [last EXCEPT !.ret = "None", !.out = {"header", "codes"}]
              ELSE /\ pc' = "all_code"
                   /\ UNCHANGED last
    /\ UNCHANGED <<file, images, accounts, mode, watching, clock, exc>>

\* generate_qr_code(name), from --qr or menu choice 6.
GenerateQr ==
    /\ pc \in {"main", "menu"}
    /\ \E name \in Names :
         LET call == [Call("qr") EXCEPT !.name = name]
             info == Subscript(accounts, name)
             issuer == IF HasKey(info.val, IssuerKey)
                       THEN GetItem(info.val, IssuerKey).v ELSE name
             uri == ProvisioningUri(name, GetItem(info.val, SecretKey).v, issuer)
             qr_file == TrueDiv(ConfigDir, QrName(name))
         IN  IF Missing(accounts, name)
             THEN /\ last' = [call EXCEPT !.ret = "None", !.out = {"not_found"}]
                  /\ pc' = Back(mode)
                  /\ UNCHANGED <<images, exc>>
             ELSE IF info.exc # "none"
             THEN /\ last' = call
                  /\ pc' = "crashed"
                  /\ exc' = info.exc
                  /\ UNCHANGED images
             ELSE IF qr_file.exc # "none"
             THEN /\ last' = [call EXCEPT !.secret = uri.secret, !.issuer = Str(uri.issuer),
                                          !.out = {"ascii_qr"}]
                  /\ pc' = "crashed"
                  /\ exc' = qr_file.exc
                  /\ UNCHANGED images
             ELSE /\ last' = [call EXCEPT !.secret = uri.secret, !.issuer = Str(uri.issuer),
                                          !.ret = "None", !.out = {"ascii_qr", "qr_saved"}]
                  /\ pc' = Back(mode)
                  /\ images' = images \cup {qr_file.val}
                  /\ UNCHANGED exc
    /\ frame' = NoFrame
    /\ UNCHANGED <<file, accounts, mode, watching, clock>>

\* --watch or menu choice 7: the banner, then the try block is entered.
Watch ==
    /\ pc \in {"main", "menu"}
    /\ watching' = TRUE
    /\ last' = [Call("watch") EXCEPT !.out = {"watch_banner"}]
    /\ frame' = NoFrame
    /\ pc' = "w_clear"
    /\ UNCHANGED <<file, images, accounts, mode, clock, exc>>

\* os.system('clear'), then manager.generate_all_codes()
WatchClear ==
    /\ pc = "w_clear"
    /\ frame' = NoFrame
    /\ pc' = "all_begin"
    /\ UNCHANGED <<file, images, accounts, mode, watching, clock, last, exc>>

\* time.sleep(1)
WatchSleep ==
    /\ pc = "w_sleep"
    /\ clock < MaxTime
    /\ clock' = clock + 1
    /\ pc' = "w_clear"
    /\ UNCHANGED <<file, images, accounts, mode, watching, frame, last, exc>>

\* Faulty variant of Caught: the loop has no except clause.
CaughtNever(inTry) == FALSE

\* Whether a KeyboardInterrupt raised here is handled: only the watch loops
\* sit in a try block with except KeyboardInterrupt.
Caught(inTry) == inTry

\* KeyboardInterrupt is raised while main waits at the menu prompt, computes
\* codes or sleeps.
Interrupt ==
    /\ pc \in TimedPcs \cup {"menu"}
    /\ IF Caught(watching)
       THEN /\ last' = [Call("KeyboardInterrupt") EXCEPT
                          !.out = IF mode = "cli" THEN {"watch_exit"} ELSE {"menu_return"}]
            /\ pc' = Back(mode)
            /\ UNCHANGED exc
       ELSE /\ last' = Call("KeyboardInterrupt")
            /\ exc' = "KeyboardInterrupt"
            /\ pc' = "crashed"
    /\ watching' = FALSE
    /\ frame' = NoFrame
    /\ UNCHANGED <<file, images, accounts, mode, clock>>

\* Menu choice 0.
Exit ==
    /\ pc = "menu"
    /\ last' = [Call("exit") EXCEPT !.out = {"bye"}]
    /\ pc' = "done"
    /\ frame' = NoFrame
    /\ UNCHANGED <<file, images, accounts, mode, watching, clock, exc>>

\* Any other menu choice, or an empty account name at a prompt.
Invalid ==
    /\ pc = "menu"
    /\ last' = [Call("invalid") EXCEPT !.out = {"invalid"}]
    /\ frame' = NoFrame
    /\ UNCHANGED <<file, images, accounts, pc, mode, watching, clock, exc>>

\* A second passes while a code is being generated or watched.
Tick ==
    /\ pc \in TimedPcs
    /\ clock < MaxTime
    /\ clock' = clock + 1
    /\ UNCHANGED <<file, images, accounts, pc, mode, watching, frame, last, exc>>

\* The program is run again in the same directory.
Run ==
    /\ pc \in {"done", "crashed"}
    /\ pc' = "boot"
    /\ accounts' = None
    /\ mode' = "cli"
    /\ watching' = FALSE
    /\ frame' = NoFrame
    /\ last' = Call("exec")
    /\ exc' = "none"
    /\ UNCHANGED <<file, images, clock>>

(* --------------------------- the specifications ------------------------ *)

\* The commands that change or list the store, run any number of times in
\* one directory that starts without a store file.
Next ==
    \/ Startup
    \/ Interactive
    \/ AddAccount
    \/ RemoveAccount
    \/ ListAccounts
    \/ GenerateQr
    \/ Interrupt
    \/ Exit
    \/ Invalid
    \/ Run

Spec == Init /\ [][Next]_vars

\* The stores add_account builds from a set of credentials.
Entries(name, creds) == {NewEntry(name, c.secret, c.issuer) : c \in creds}

StoresOf(creds) ==
    {EmptyDict}
    \cup UNION {{Dict(<<Item(n, e)>>) : e \in Entries(n, creds)} : n \in Names}
    \cup UNION {{Dict(<<Item(p[1], e), Item(p[2], d)>>) :
                    e \in Entries(p[1], creds), d \in Entries(p[2], creds)} :
                  p \in {q \in Names \X Names : q[1] # q[2]}}

\* The program is started at any second beside a store file it wrote earlier
\* (every account added with the same secret and no issuer), or beside none.
InitRead ==
    /\ file \in {Absent}
          \cup {Regular(Dumps(s)) : s \in StoresOf({[secret |-> <<"J", "B">>, issuer |-> None]})}
    /\ images = {}
    /\ accounts = None
    /\ pc = "boot"
    /\ mode = "cli"
    /\ watching = FALSE
    /\ clock \in 0..MaxTime
    /\ frame = NoFrame
    /\ last = Call("exec")
    /\ exc = "none"

\* The commands that read the store, with the clock running.
NextRead ==
    \/ Startup
    \/ Interactive
    \/ ListAccounts
    \/ GenerateCode
    \/ GenerateNow
    \/ GenerateRemaining
    \/ GenerateAll
    \/ AllBegin
    \/ AllCode
    \/ GenerateQr
    \/ Watch
    \/ WatchClear
    \/ WatchSleep
    \/ Interrupt
    \/ Exit
    \/ Invalid
    \/ Tick

SpecRead == InitRead /\ [][NextRead]_vars

\* The characters of the store files tried at start-up.
RawAlphabet == {"{", "}", "[", "]", "\"", "a", "1", ":", " ", BadByte}

\* The longest of them.
MaxRaw == 3

Texts(n) == UNION {[1..k -> RawAlphabet] : k \in 0..n}

\* Start-up beside any store file: missing, unreadable, a directory, any
\* short text, or a file the program wrote.
InitLoad ==
    /\ file \in {Absent, [kind |-> "noperm", data |-> <<>>], [kind |-> "dir", data |-> <<>>]}
          \cup {Regular(t) : t \in Texts(MaxRaw)}
          \cup {Regular(Dumps(s)) : s \in StoresOf(Credentials)}
    /\ images = {}
    /\ accounts = None
    /\ pc = "boot"
    /\ mode = "cli"
    /\ watching = FALSE
    /\ clock = 0
    /\ frame = NoFrame
    /\ last = Call("exec")
    /\ exc = "none"

NextLoad == Startup

SpecLoad == InitLoad /\ [][NextLoad]_vars

(* ------------------------------ the claims ----------------------------- *)

\* name is a key of the mapping d.
Has(d, name) == \E i \in 1..Len(d.v) : d.v[i].k = name

\* The step is a call of one of the methods in ops, made from main.
Calls(ops) == pc \in {"main", "menu"} /\ last'.op \in ops

\* The record add_account stores for the arguments of a call.
Stored(call) ==
    Dict(<<Item(SecretKey, Str(call.secret)),
           Item(IssuerKey, IF call.issuer \in {None, Str(<<>>)}
                           THEN Str(call.name) ELSE call.issuer)>>)

\* p is the text s or a beginning of it.
IsPrefix(p, s) == Len(p) <= Len(s) /\ SubSeq(s, 1, Len(p)) = p

\* C1: whenever generate_code or generate_all_codes has sampled the time t,
\* the seconds remaining it reports are in 1..30, are 30 exactly when
\* t mod 30 = 0, and unless t mod 30 = 29 the value for t + 1 is one less.
C1_RemainingRange ==
    frame.sampled =>
        /\ frame.rem \in 1..30
        /\ (frame.rem = 30) <=> (frame.trem % 30 = 0)
        /\ (frame.trem % 30 # 29) => (Remaining(frame.trem + 1) = frame.rem - 1)

\* generate_code has sampled the first second of a window and reported 30.
C1_Witness ==
    /\ last.op = "generate"
    /\ last.ret = "tuple"
    /\ frame.sampled
    /\ frame.trem = 30
    /\ frame.rem = 30

\* C2: add_account for a name already in the store: an answer other than
\* y/Y returns False and changes neither the mapping nor the file; y/Y
\* returns True, replaces that name's record by the new secret and issuer
\* and leaves every other record, the names and their order as they were.
C2_Overwrite ==
    [][(Calls({"add"}) /\ Has(accounts, last'.name)) =>
         IF last'.answer \in {"y", "Y"}
         THEN /\ last'.ret = "True"
              /\ Len(accounts'.v) = Len(accounts.v)
              /\ \A i \in 1..Len(accounts.v) :
                   /\ accounts'.v[i].k = accounts.v[i].k
                   /\ IF accounts.v[i].k = last'.name
                      THEN accounts'.v[i].val = Stored(last')
                      ELSE accounts'.v[i].val = accounts.v[i].val
         ELSE /\ last'.ret = "False"
              /\ accounts' = accounts
              /\ file' = file]_vars

\* The first of two accounts has been overwritten after the answer Y, and
\* the file holds its new record.
C2_Witness ==
    /\ last.op = "add"
    /\ last.answer = "Y"
    /\ last.ret = "True"
    /\ Len(accounts.v) = 2
    /\ accounts.v[1].k = last.name
    /\ file.kind = "regular"
    /\ Loads(file.data).ok
    /\ Has(Loads(file.data).val, last.name)
    /\ GetItem(Loads(file.data).val, last.name) = Stored(last)

\* C3: remove_account for a name not in the store returns False, reports
\* it, writes nothing and changes neither the mapping nor the file; for a
\* name in the store it returns True and deletes exactly that record.
C3_Remove ==
    [][Calls({"remove"}) =>
         IF Has(accounts, last'.name)
         THEN /\ last'.ret = "True"
              /\ Len(accounts'.v) = Len(accounts.v) - 1
              /\ ~Has(accounts', last'.name)
              /\ \A i \in 1..Len(accounts.v) :
                   accounts.v[i].k # last'.name =>
                       \E j \in 1..Len(accounts'.v) :
                           /\ accounts'.v[j] = accounts.v[i]
                           /\ j \in {i, i - 1}
         ELSE /\ last'.ret = "False"
              /\ "not_found" \in last'.out
              /\ last'.save = "none"
              /\ accounts' = accounts
              /\ file' = file]_vars

\* A name the non-empty store lacks has been removed: False, with a file.
C3_Witness ==
    /\ last.op = "remove"
    /\ last.ret = "False"
    /\ ~Has(accounts, last.name)
    /\ Len(accounts.v) = 1
    /\ file.kind = "regular"

\* C4: every store the manager holds is read back from its saved text as
\* the same records in the same order; after a completed save a fresh load of
\* the file gives the mapping in memory; and after a load of a file that
\* parses, saving again would write the same text.
C4_RoundTrip ==
    accounts.t = "dict" =>
        /\ LoadAccounts(Regular(Dumps(accounts))) = [exc |-> "none", val |-> accounts]
        /\ last.save = "ok" => LoadAccounts(file) = [exc |-> "none", val |-> accounts]
        /\ (last.op = "init" /\ file.kind = "regular" /\ Loads(file.data).ok) =>
               Dumps(accounts) = file.data

\* A fresh start has loaded two accounts, the escaped name first.
C4_Witness ==
    /\ pc = "main"
    /\ last.op = "init"
    /\ Len(accounts.v) = 2
    /\ accounts.v[1].k = <<"\\", "\"">>
    /\ accounts.v[2].val = Stored([name |-> <<"a">>, secret |-> <<"M", "Y">>,
                                  issuer |-> Str(<<"X">>)])

\* The mapping in memory after a call that returned True holds what the
\* call was to change.
Mutated(call, accts) ==
    IF call.op = "add"
    THEN Has(accts, call.name) /\ GetItem(accts, call.name) = Stored(call)
    ELSE ~Has(accts, call.name)

\* What holds of every add_account and remove_account whether or not the
\* write fails: False means no write; True with a write that did not fail
\* means the file holds the mapping in memory; a failed write is reported,
\* the call returns True and the mapping keeps the change.
C5_Common ==
    /\ (last'.ret = "False") => (file' = file /\ last'.save = "none")
    /\ (last'.ret = "True" /\ last'.save = "ok") =>
           (file'.kind = "regular"
            /\ LoadAccounts(file') = [exc |-> "none", val |-> accounts'])
    /\ (last'.save = "failed") =>
           ("save_failed" \in last'.out /\ last'.ret = "True" /\ Mutated(last', accounts'))

\* The bytes a store file holds: none when there is no file.
Content(f) == IF f.kind = "regular" THEN f.data ELSE <<>>

\* C5 as claimed: the store is rewritten on every mutation (see C5_Common),
\* and after a failed write the file keeps its previous content.
C5_FileKept ==
    [][Calls({"add", "remove"}) =>
         (C5_Common /\ (last'.save = "failed" => Content(file') = Content(file)))]_vars

\* C5 as amended: the store is rewritten on every mutation (see C5_Common),
\* and after a failed write the file keeps its previous content or holds a
\* beginning of the new text.
C5_Rewritten ==
    [][Calls({"add", "remove"}) =>
         (C5_Common
          /\ (last'.save = "failed" =>
                \/ Content(file') = Content(file)
                \/ file'.kind = "regular" /\ IsPrefix(file'.data, Dumps(accounts'))))]_vars

\* The write of a remove_account has failed after the file was truncated:
\* the account left in memory is not in the file, which is empty.
C5_Witness ==
    /\ last.op = "remove"
    /\ last.ret = "True"
    /\ last.save = "failed"
    /\ "save_failed" \in last.out
    /\ Len(accounts.v) = 1
    /\ file = Regular(<<>>)

\* A name-to-record object: each value an object with a string secret.
IsStore(o) ==
    /\ o.t = "dict"
    /\ \A i \in 1..Len(o.v) :
         /\ o.v[i].val.t = "dict"
         /\ Has(o.v[i].val, SecretKey)
         /\ GetItem(o.v[i].val, SecretKey).t = "str"

WellFormed(f) ==
    /\ f.kind = "regular"
    /\ Decodable(f.data)
    /\ Loads(f.data).ok
    /\ IsStore(Loads(f.data).val)

\* C6: whatever the store file holds, the manager starts without an
\* exception, and with an empty store unless the file is well formed.
C6_SilentRecovery ==
    (pc # "boot") =>
        /\ exc = "none"
        /\ WellFormed(file) \/ accounts = EmptyDict

\* C7: generate_qr_code for a name in the store runs to completion, saves
\* the image <name>_qr.png in the store directory and leaves the store as
\* it is.
C7_QrCompletes ==
    (last.op = "qr" /\ Has(accounts, last.name)) =>
        /\ exc = "none"
        /\ pc = Back(mode)
        /\ "qr_saved" \in last.out
        /\ \E img \in images : img.v = ConfigDir.v \o <<"/">> \o QrName(last.name)

\* C8: generate_code and generate_qr_code for a name the store lacks report
\* it, return None before any code, URI or image is made, change neither
\* the store nor the file, and raise nothing, from a flag or the menu.
C8_MissingName ==
    [][(Calls({"generate", "qr"}) /\ ~Has(accounts, last'.name)) =>
         /\ last'.ret = "None"
         /\ last'.out = {"not_found"}
         /\ exc' = "none"
         /\ pc' = Back(mode)
         /\ frame' = NoFrame
         /\ images' = images
         /\ accounts' = accounts
         /\ file' = file]_vars

\* In interactive mode a code was asked for a name the one-account store
\* lacks, and the menu is shown again.
C8_Witness ==
    /\ last.op = "generate"
    /\ last.ret = "None"
    /\ ~Has(accounts, last.name)
    /\ Len(accounts.v) = 1
    /\ pc = "menu"

\* C9: the remaining seconds a call reports and every code it reports come
\* from one timestamp, so that no code of one 30-second window goes with the
\* remaining seconds of another window.
C9_SingleTimestamp ==
    frame.sampled =>
        \A i \in 1..Len(frame.lines) :
            frame.lines[i].code.counter = frame.trem \div 30

\* The steps of one pass of the watch loop, in order.
LoopNext(p) ==
    CASE p = "w_clear" -> {"all_begin"}
      [] p = "all_begin" -> {"all_code", "w_sleep"}
      [] p = "all_code" -> {"all_code", "w_sleep"}
      [] p = "w_sleep" -> {"w_clear"}
      [] OTHER -> {}

\* C10: the watch loop repeats clear-screen, generate_all_codes, sleep(1),
\* and is left only by a KeyboardInterrupt, which is caught at every step:
\* the process then ends normally after --watch and the menu is shown again
\* after choice 7; the menu ends normally only by choice 0; the store and
\* the file do not change while watching.
C10_Watch ==
    [][/\ (watching /\ watching') =>
             /\ pc' = pc \/ pc' \in LoopNext(pc)
             /\ (pc = "w_sleep" /\ pc' = "w_clear") => clock' = clock + 1
       /\ (watching /\ ~watching') =>
             /\ last'.op = "KeyboardInterrupt"
             /\ exc' = "none"
             /\ pc' = IF mode = "cli" THEN "done" ELSE "menu"
       /\ watching => (accounts' = accounts /\ file' = file)
       /\ (pc = "menu" /\ pc' = "done") => last'.op = "exit"]_vars

\* Ctrl+C during a watch started from the menu has led back to the menu.
C10_Witness ==
    /\ last.op = "KeyboardInterrupt"
    /\ last.out = {"menu_return"}
    /\ exc = "none"
    /\ pc = "menu"
    /\ ~watching

====
